---- MODULE Spec2Model ----
(***************************************************************************)
(* Model of the SDO/EVE data-retriever clients of sunpy                    *)
(* (sunpy/net/dataretriever/sources/eve.py): the five _can_handle_query    *)
(* predicates, the construction of the level-2+ clients, the time-range    *)
(* normalisation of _get_url_for_timerange and the time spans of           *)
(* _get_time_for_url.                                                      *)
(*                                                                         *)
(* Python values are modelled as follows.                                  *)
(*  - a str is a sequence of one-character strings, so that str.lower()    *)
(*    is computed character by character;                                  *)
(*  - an attribute value is tagged with its Python type ("int" or "str"),  *)
(*    which is what isinstance() inspects;                                 *)
(*  - a datetime is a record of its fields; year, month and day are        *)
(*    folded into one ordinal `day`, numbered like %j of the year 2018     *)
(*    (2018-04-20 is day 110, 2018-04-28 is day 118).                      *)
(***************************************************************************)
EXTENDS Integers, Sequences, FiniteSets, TLC

VARIABLES op, cls, query, answer, timerange, scraped, urls,
          times, raised, today, scrapper

vars == <<op, cls, query, answer, timerange, scraped, urls,
          times, raised, today, scrapper>>

(***************************************************************************)
(* Bounds of the model.                                                    *)
(***************************************************************************)
\* largest number of terms in a query
MaxTerms == 4

\* largest number of days between the first day and a requested time
MaxSpan == 2

\* largest number of URLs handed to _get_time_for_url
MaxUrls == 2

(***************************************************************************)
(* str and str.lower()                                                     *)
(***************************************************************************)
UpperCase == <<"A","B","C","D","E","F","G","H","I","J","K","L","M",
               "N","O","P","Q","R","S","T","U","V","W","X","Y","Z">>

LowerCase == <<"a","b","c","d","e","f","g","h","i","j","k","l","m",
               "n","o","p","q","r","s","t","u","v","w","x","y","z">>

\* the lower-case letter of each upper-case letter
ToLower ==
    [c \in {UpperCase[k] : k \in DOMAIN UpperCase} |->
        LowerCase[CHOOSE k \in DOMAIN UpperCase : UpperCase[k] = c]]

\* one character of str.lower()
LowerChar(c) == IF c \in DOMAIN ToLower THEN ToLower[c] ELSE c

\* str.lower()
Lower(s) == [i \in DOMAIN s |-> LowerChar(s[i])]

\* the string literals of the source
eve_str    == <<"e","v","e">>
l2b_str    == <<"2","b">>
l2_str     == <<"2">>
l3_str     == <<"3">>
l3m_str    == <<"3","m">>
l3merged_str == <<"3","m","e","r","g","e","d">>

(***************************************************************************)
(* Attribute values, datetimes and query terms                             *)
(***************************************************************************)
IntV(n) == [type |-> "int", i |-> n, s |-> <<>>]
StrV(s) == [type |-> "str", i |-> 0, s |-> s]

\* isinstance(v, int) / isinstance(v, str)
IsInt(v) == v.type = "int"
IsStr(v) == v.type = "str"

\* datetime.datetime(...)
DateTime(d, h, m, sec, us) ==
    [day |-> d, hour |-> h, minute |-> m, second |-> sec, microsecond |-> us]

\* datetime ordering: lexicographic on the fields
DtLT(a, b) ==
    \/ a.day < b.day
    \/ a.day = b.day /\ a.hour < b.hour
    \/ a.day = b.day /\ a.hour = b.hour /\ a.minute < b.minute
    \/ a.day = b.day /\ a.hour = b.hour /\ a.minute = b.minute
       /\ a.second < b.second
    \/ a.day = b.day /\ a.hour = b.hour /\ a.minute = b.minute
       /\ a.second = b.second /\ a.microsecond < b.microsecond

DtLE(a, b) == a = b \/ DtLT(a, b)

NoDt    == DateTime(0, 0, 0, 0, 0)
NoValue == StrV(<<>>)

\* the attrs of a query; x.__class__.__name__ is the field `name`
Instrument(s) == [name |-> "Instrument", value |-> StrV(s), start |-> NoDt, end |-> NoDt]
Level(v)      == [name |-> "Level", value |-> v, start |-> NoDt, end |-> NoDt]
Source(s)     == [name |-> "Source", value |-> StrV(s), start |-> NoDt, end |-> NoDt]
Time(s, e)    == [name |-> "Time", value |-> NoValue, start |-> s, end |-> e]

\* datetime.datetime(2018, 4, 20): first day of level-2b data
L2B_FIRST == DateTime(110, 0, 0, 0, 0)

\* datetime.datetime(2018, 4, 28): level-2 data stops
L2_STOP == DateTime(118, 0, 0, 0, 0)

(***************************************************************************)
(* _can_handle_query of the five clients.  Each loop body is an operator   *)
(* on (chk_var, x); the loop is the left fold of its body over the query.  *)
(***************************************************************************)
Front(q) == SubSeq(q, 1, Len(q) - 1)

\* EVEClient: chk_var is a counter
EVEClient_loop(chk_var, x) ==
    IF x.name = "Instrument" /\ Lower(x.value.s) = eve_str
    THEN chk_var + 1
    ELSE IF x.name = "Level" /\ IsInt(x.value) /\ x.value.i = 0
    THEN chk_var + 1
    ELSE chk_var

RECURSIVE EVEClient_chk_var(_)
EVEClient_chk_var(q) ==
    IF q = <<>> THEN 0
    ELSE EVEClient_loop(EVEClient_chk_var(Front(q)), q[Len(q)])

\* variant: two or more satisfying terms are enough
EVEClient_can_handle_query_at_least(q) ==
    IF EVEClient_chk_var(q) >= 2 THEN TRUE ELSE FALSE

EVEClient_can_handle_query(q) ==
    IF EVEClient_chk_var(q) = 2 THEN TRUE ELSE FALSE

\* variant: the end of the Time term must be strictly after the first day
EVELevel2BClient_loop_strict_end(chk_var, x) ==
    IF x.name = "Instrument" /\ Lower(x.value.s) = eve_str
    THEN chk_var \cup {x.name}
    ELSE IF x.name = "Level" /\ IsStr(x.value) /\ Lower(x.value.s) = l2b_str
    THEN chk_var \cup {x.name}
    ELSE IF x.name = "Time" /\ DtLT(L2B_FIRST, x.end)
    THEN chk_var \cup {x.name}
    ELSE chk_var

\* variant: every satisfying term counts, as with the counter of EVEClient
EVELevel2BClient_loop_counting(chk_var, x) ==
    IF x.name = "Instrument" /\ Lower(x.value.s) = eve_str
    THEN chk_var \cup {<<x.name, Cardinality(chk_var)>>}
    ELSE IF x.name = "Level" /\ IsStr(x.value) /\ Lower(x.value.s) = l2b_str
    THEN chk_var \cup {<<x.name, Cardinality(chk_var)>>}
    ELSE IF x.name = "Time" /\ DtLE(L2B_FIRST, x.end)
    THEN chk_var \cup {<<x.name, Cardinality(chk_var)>>}
    ELSE chk_var

\* variant: the str level '2' is taken for level 2b as well
EVELevel2BClient_loop_any_level2(chk_var, x) ==
    IF x.name = "Instrument" /\ Lower(x.value.s) = eve_str
    THEN chk_var \cup {x.name}
    ELSE IF x.name = "Level" /\ IsStr(x.value) /\ Lower(x.value.s) \in {l2b_str, l2_str}
    THEN chk_var \cup {x.name}
    ELSE IF x.name = "Time" /\ DtLE(L2B_FIRST, x.end)
    THEN chk_var \cup {x.name}
    ELSE chk_var

\* EVELevel2BClient: chk_var is a set of class names
EVELevel2BClient_loop(chk_var, x) ==
    IF x.name = "Instrument" /\ Lower(x.value.s) = eve_str
    THEN chk_var \cup {x.name}
    ELSE IF x.name = "Level" /\ IsStr(x.value) /\ Lower(x.value.s) = l2b_str
    THEN chk_var \cup {x.name}
    ELSE IF x.name = "Time" /\ DtLE(L2B_FIRST, x.end)
    THEN chk_var \cup {x.name}
    ELSE chk_var

RECURSIVE EVELevel2BClient_chk_var(_)
EVELevel2BClient_chk_var(q) ==
    IF q = <<>> THEN {}
    ELSE EVELevel2BClient_loop(EVELevel2BClient_chk_var(Front(q)), q[Len(q)])

EVELevel2BClient_can_handle_query(q) ==
    Cardinality(EVELevel2BClient_chk_var(q)) = 3

\* variant: a Time term starting exactly when level-2 stops is accepted
EVELevel2Client_loop_incl_stop(chk_var, x) ==
    IF x.name = "Instrument" /\ Lower(x.value.s) = eve_str
    THEN chk_var \cup {x.name}
    ELSE IF x.name = "Level" /\ (\/ IsInt(x.value) /\ x.value.i = 2
                                 \/ IsStr(x.value) /\ x.value.s = l2_str)
    THEN chk_var \cup {x.name}
    ELSE IF x.name = "Time" /\ DtLE(x.start, L2_STOP)
    THEN chk_var \cup {x.name}
    ELSE chk_var

\* variant: the end of the Time term is compared, not its start
EVELevel2Client_loop_by_end(chk_var, x) ==
    IF x.name = "Instrument" /\ Lower(x.value.s) = eve_str
    THEN chk_var \cup {x.name}
    ELSE IF x.name = "Level" /\ (\/ IsInt(x.value) /\ x.value.i = 2
                                 \/ IsStr(x.value) /\ x.value.s = l2_str)
    THEN chk_var \cup {x.name}
    ELSE IF x.name = "Time" /\ DtLT(x.end, L2_STOP)
    THEN chk_var \cup {x.name}
    ELSE chk_var

\* variant: the Time term is compared with the level-2b cutover
EVELevel2Client_loop_wrong_cutover(chk_var, x) ==
    IF x.name = "Instrument" /\ Lower(x.value.s) = eve_str
    THEN chk_var \cup {x.name}
    ELSE IF x.name = "Level" /\ (\/ IsInt(x.value) /\ x.value.i = 2
                                 \/ IsStr(x.value) /\ x.value.s = l2_str)
    THEN chk_var \cup {x.name}
    ELSE IF x.name = "Time" /\ DtLT(x.start, L2B_FIRST)
    THEN chk_var \cup {x.name}
    ELSE chk_var

\* variant: a Time term counts only once the Instrument has been seen
EVELevel2Client_loop_ordered(chk_var, x) ==
    IF x.name = "Instrument" /\ Lower(x.value.s) = eve_str
    THEN chk_var \cup {x.name}
    ELSE IF x.name = "Level" /\ (\/ IsInt(x.value) /\ x.value.i = 2
                                 \/ IsStr(x.value) /\ x.value.s = l2_str)
    THEN chk_var \cup {x.name}
    ELSE IF x.name = "Time" /\ DtLT(x.start, L2_STOP) /\ "Instrument" \in chk_var
    THEN chk_var \cup {x.name}
    ELSE chk_var

\* EVELevel2Client
EVELevel2Client_loop(chk_var, x) ==
    IF x.name = "Instrument" /\ Lower(x.value.s) = eve_str
    THEN chk_var \cup {x.name}
    ELSE IF x.name = "Level" /\ (\/ IsInt(x.value) /\ x.value.i = 2
                                 \/ IsStr(x.value) /\ x.value.s = l2_str)
    THEN chk_var \cup {x.name}
    ELSE IF x.name = "Time" /\ DtLT(x.start, L2_STOP)
    THEN chk_var \cup {x.name}
    ELSE chk_var

RECURSIVE EVELevel2Client_chk_var(_)
EVELevel2Client_chk_var(q) ==
    IF q = <<>> THEN {}
    ELSE EVELevel2Client_loop(EVELevel2Client_chk_var(Front(q)), q[Len(q)])

EVELevel2Client_can_handle_query(q) ==
    Cardinality(EVELevel2Client_chk_var(q)) = 3

\* variant: a term of any other kind is recorded too
EVELevel3Client_loop_any_kind(chk_var, x) ==
    IF x.name = "Instrument" /\ Lower(x.value.s) = eve_str
    THEN chk_var \cup {x.name}
    ELSE IF x.name = "Level" /\ (\/ IsInt(x.value) /\ x.value.i = 3
                                 \/ IsStr(x.value) /\ x.value.s = l3_str)
    THEN chk_var \cup {x.name}
    ELSE IF x.name \notin {"Instrument", "Level"}
    THEN chk_var \cup {x.name}
    ELSE chk_var

\* EVELevel3Client
EVELevel3Client_loop(chk_var, x) ==
    IF x.name = "Instrument" /\ Lower(x.value.s) = eve_str
    THEN chk_var \cup {x.name}
    ELSE IF x.name = "Level" /\ (\/ IsInt(x.value) /\ x.value.i = 3
                                 \/ IsStr(x.value) /\ x.value.s = l3_str)
    THEN chk_var \cup {x.name}
    ELSE chk_var

RECURSIVE EVELevel3Client_chk_var(_)
EVELevel3Client_chk_var(q) ==
    IF q = <<>> THEN {}
    ELSE EVELevel3Client_loop(EVELevel3Client_chk_var(Front(q)), q[Len(q)])

EVELevel3Client_can_handle_query(q) ==
    Cardinality(EVELevel3Client_chk_var(q)) = 2

\* variant: the level is compared without lower()
EVELevel3MergedClient_loop_case_sensitive(chk_var, x) ==
    IF x.name = "Instrument" /\ Lower(x.value.s) = eve_str
    THEN chk_var \cup {x.name}
    ELSE IF x.name = "Level" /\ IsStr(x.value)
            /\ x.value.s \in {l3m_str, l3merged_str}
    THEN chk_var \cup {x.name}
    ELSE chk_var

\* variant: a further satisfying term of a kind is recorded as well
EVELevel3MergedClient_loop_counting(chk_var, x) ==
    IF x.name = "Instrument" /\ Lower(x.value.s) = eve_str
    THEN IF x.name \in chk_var THEN chk_var \cup {"again"} ELSE chk_var \cup {x.name}
    ELSE IF x.name = "Level" /\ IsStr(x.value)
            /\ Lower(x.value.s) \in {l3m_str, l3merged_str}
    THEN IF x.name \in chk_var THEN chk_var \cup {"again"} ELSE chk_var \cup {x.name}
    ELSE chk_var

\* EVELevel3MergedClient
EVELevel3MergedClient_loop(chk_var, x) ==
    IF x.name = "Instrument" /\ Lower(x.value.s) = eve_str
    THEN chk_var \cup {x.name}
    ELSE IF x.name = "Level" /\ IsStr(x.value)
            /\ Lower(x.value.s) \in {l3m_str, l3merged_str}
    THEN chk_var \cup {x.name}
    ELSE chk_var

RECURSIVE EVELevel3MergedClient_chk_var(_)
EVELevel3MergedClient_chk_var(q) ==
    IF q = <<>> THEN {}
    ELSE EVELevel3MergedClient_loop(EVELevel3MergedClient_chk_var(Front(q)), q[Len(q)])

EVELevel3MergedClient_can_handle_query(q) ==
    Cardinality(EVELevel3MergedClient_chk_var(q)) = 2

\* cls._can_handle_query(*query), by class
can_handle_query(c, q) ==
    CASE c = "EVEClient"             -> EVEClient_can_handle_query(q)
      [] c = "EVELevel2BClient"      -> EVELevel2BClient_can_handle_query(q)
      [] c = "EVELevel2Client"       -> EVELevel2Client_can_handle_query(q)
      [] c = "EVELevel3Client"       -> EVELevel3Client_can_handle_query(q)
      [] c = "EVELevel3MergedClient" -> EVELevel3MergedClient_can_handle_query(q)

(***************************************************************************)
(* _get_url_for_timerange of the four dated clients.                       *)
(***************************************************************************)
\* datetime.time(): the time of day of a datetime
TimeOfDay(dt) ==
    [hour |-> dt.hour, minute |-> dt.minute, second |-> dt.second,
     microsecond |-> dt.microsecond]

\* datetime.time(hour, minute)
time(h, m) == [hour |-> h, minute |-> m, second |-> 0, microsecond |-> 0]

\* '{:%Y-%m-%d}'.format(dt): the rendered date, without a time of day
FormatDay(dt) == [text |-> "%Y-%m-%d", day |-> dt.day, hour |-> 0]

\* '{:%Y-%m-%d %H:00}'.format(dt): the rendered date and hour
FormatHour(dt) == [text |-> "%Y-%m-%d %H:00", day |-> dt.day, hour |-> dt.hour]

\* sunpy.time.parse_time of a rendered date
parse_time(str) ==
    IF "text" \notin DOMAIN str THEN str
    ELSE IF str.text = "%Y-%m-%d" THEN DateTime(str.day, 0, 0, 0, 0)
    ELSE DateTime(str.day, str.hour, 0, 0, 0)

\* sunpy.time.TimeRange(a, b) with a a rendered date or a datetime and b a
\* datetime
TimeRange(a, b) ==
    LET x == parse_time(a)
    IN  IF DtLE(x, b) THEN [start |-> x, end |-> b] ELSE [start |-> b, end |-> x]

\* variant: the range is passed on as requested
timerange_as_requested(tr) == tr

\* EVEClient: daily files
EVEClient_timerange(tr) ==
    IF TimeOfDay(tr.start) # time(0, 0)
    THEN TimeRange(FormatDay(tr.start), tr.end)
    ELSE tr

\* EVELevel2BClient: daily files
EVELevel2BClient_timerange(tr) ==
    IF TimeOfDay(tr.start) # time(0, 0)
    THEN TimeRange(FormatDay(tr.start), tr.end)
    ELSE tr

\* variant: the start is rounded down to the day, as for the daily files
EVELevel2Client_timerange_daily(tr) ==
    IF TimeOfDay(tr.start) # time(0, 0)
    THEN TimeRange(FormatDay(tr.start), tr.end)
    ELSE tr

\* EVELevel2Client: hourly files
EVELevel2Client_timerange(tr) ==
    IF TimeOfDay(tr.start) # time(tr.start.hour, 0)
    THEN TimeRange(FormatHour(tr.start), tr.end)
    ELSE tr

\* EVELevel3Client: daily files
EVELevel3Client_timerange(tr) ==
    IF TimeOfDay(tr.start) # time(0, 0)
    THEN TimeRange(FormatDay(tr.start), tr.end)
    ELSE tr

\* the URL of one file: the date tokens rendered into the pattern
Url(level, d, h) == [level |-> level, day |-> d, hour |-> h]

\* Scraper._extractDateURL: the date the URL encodes
extractDateURL(url) == DateTime(url.day, url.hour, 0, 0, 0)

\* Scraper.filelist: the files of the pattern whose date lies in the range,
\* in ascending order; a daily pattern has no hour token
Scraper_filelist(level, hourly, tr) ==
    LET days == tr.end.day - tr.start.day + 1
        candidates ==
            IF hourly
            THEN [i \in 1..(days * 24) |->
                    Url(level, tr.start.day + ((i - 1) \div 24), (i - 1) % 24)]
            ELSE [i \in 1..days |-> Url(level, tr.start.day + (i - 1), 0)]
        InRange(url) == /\ DtLE(tr.start, extractDateURL(url))
                        /\ DtLE(extractDateURL(url), tr.end)
    IN  SelectSeq(candidates, InRange)

\* '1900/01/01': 43099 days before 2018-01-01, which is day 1
EPOCH_1900 == [text |-> "%Y/%m/%d", day |-> 1 - 43099, hour |-> 0]

\* variant: the requested range is listed
EVELevel3MergedClient_timerange_requested(tr, td) == tr

\* EVELevel3MergedClient: one file for the whole mission; td is
\* datetime.date.today()
EVELevel3MergedClient_timerange(tr, td) == TimeRange(EPOCH_1900, td)

\* Scraper.filelist of a pattern without a date token: the date of its one
\* file defaults to 1900-01-01
Scraper_filelist_undated(level, tr) ==
    LET url == Url(level, EPOCH_1900.day, 0)
    IN  IF DtLE(tr.start, extractDateURL(url)) /\ DtLE(extractDateURL(url), tr.end)
        THEN <<url>>
        ELSE <<>>

(***************************************************************************)
(* _get_time_for_url                                                       *)
(***************************************************************************)
\* dt + datetime.timedelta(days=n)
AddDays(dt, n) == [dt EXCEPT !.day = dt.day + n]

\* dt + datetime.timedelta(hours=n)
AddHours(dt, n) ==
    [dt EXCEPT !.day = dt.day + ((dt.hour + n) \div 24), !.hour = (dt.hour + n) % 24]

\* Scraper._URL_followsPattern: the URL is one of the scraper's pattern
Scraper_followsPattern(level, url) == url.level = level

\* the URLs all follow the pattern, so that _extractDateURL returns for each
AllFollowPattern(level, us) == \A i \in DOMAIN us : Scraper_followsPattern(level, us[i])

PatternMismatch == [raised |-> "PatternMismatch", times |-> <<>>]

Returned(ts) == [raised |-> "none", times |-> ts]

\* EVEClient: one day per URL
EVEClient_get_time_for_url(us) ==
    IF AllFollowPattern("L0CS", us)
    THEN Returned([i \in DOMAIN us |->
            LET t0 == extractDateURL(us[i]) IN TimeRange(t0, AddDays(t0, 1))])
    ELSE PatternMismatch

\* variant: one hour per URL, as for the hourly files
EVELevel2BClient_get_time_for_url_hourly(us) ==
    IF AllFollowPattern("L2B", us)
    THEN Returned([i \in DOMAIN us |->
            LET t0 == extractDateURL(us[i]) IN TimeRange(t0, AddHours(t0, 1))])
    ELSE PatternMismatch

\* EVELevel2BClient: one day per URL
EVELevel2BClient_get_time_for_url(us) ==
    IF AllFollowPattern("L2B", us)
    THEN Returned([i \in DOMAIN us |->
            LET t0 == extractDateURL(us[i]) IN TimeRange(t0, AddDays(t0, 1))])
    ELSE PatternMismatch

\* variant: one day per URL, as for the daily files
EVELevel2Client_get_time_for_url_daily(us) ==
    IF AllFollowPattern("L2", us)
    THEN Returned([i \in DOMAIN us |->
            LET t0 == extractDateURL(us[i]) IN TimeRange(t0, AddDays(t0, 1))])
    ELSE PatternMismatch

\* EVELevel2Client: one hour per URL
EVELevel2Client_get_time_for_url(us) ==
    IF AllFollowPattern("L2", us)
    THEN Returned([i \in DOMAIN us |->
            LET t0 == extractDateURL(us[i]) IN TimeRange(t0, AddHours(t0, 1))])
    ELSE PatternMismatch

\* EVELevel3Client: one day per URL
EVELevel3Client_get_time_for_url(us) ==
    IF AllFollowPattern("L3", us)
    THEN Returned([i \in DOMAIN us |->
            LET t0 == extractDateURL(us[i]) IN TimeRange(t0, AddDays(t0, 1))])
    ELSE PatternMismatch

\* variant: the date of each URL is extracted first
EVELevel3MergedClient_get_time_for_url_extracting(us, td) ==
    IF AllFollowPattern("L3Merged", us)
    THEN Returned([i \in DOMAIN us |-> TimeRange(EPOCH_1900, td)])
    ELSE PatternMismatch

\* EVELevel3MergedClient: the whole mission for every URL; the URL is not
\* looked at
EVELevel3MergedClient_get_time_for_url(us, td) ==
    Returned([i \in DOMAIN us |-> TimeRange(EPOCH_1900, td)])

(***************************************************************************)
(* _BaseEVEClient.__init__                                                 *)
(***************************************************************************)
NotImplemented == "NotImplemented"

HOST_URL == "http://lasp.colorado.edu/eve/data_access/evewebdataproducts/"

PRODUCT_NAME == "S"

VERSION == 6

REVISION == 2

\* the classes that inherit __init__ from _BaseEVEClient, and itself
BaseEVEClasses ==
    {"_BaseEVEClient", "EVELevel2BClient", "EVELevel2Client", "EVELevel3Client",
     "EVELevel3MergedClient"}

\* cls._PRODUCT_URL
PRODUCT_URL(c) ==
    CASE c = "_BaseEVEClient"   -> NotImplemented
      [] c = "EVELevel2BClient" ->
            "level2b/%Y/%j/EV{product}_L2B_%Y%j_{version:03d}_{revision:02d}.fit.gz"
      [] c = "EVELevel2Client"  ->
            "level2/%Y/%j/EV{product}_L2_%Y%j_%H_{version:03d}_{revision:02d}.fit.gz"
      [] c = "EVELevel3Client"  -> "level3/%Y/EVE_L3_%Y%j_{version:03d}_{revision:02d}.fit"
      [] c = "EVELevel3MergedClient" -> "merged/latest_EVE_L3_merged.fit"

\* Scraper(pattern, product=, version=, revision=)
Scraper(pattern, product, version, revision) ==
    [pattern |-> pattern, product |-> product, version |-> version, revision |-> revision]

\* no self._scrapper attribute
NoScraper == Scraper(<<>>, "", 0, 0)

\* variant: the scraper is made without looking at _PRODUCT_URL
BaseEVEClient_init_unchecked(c) ==
    [raised |-> "none",
     scrapper |-> Scraper(<<HOST_URL, PRODUCT_URL(c)>>, PRODUCT_NAME, VERSION, REVISION)]

\* _BaseEVEClient.__init__ of an instance of class c
BaseEVEClient_init(c) ==
    IF PRODUCT_URL(c) = NotImplemented
    THEN [raised |-> "NotImplementedError", scrapper |-> NoScraper]
    ELSE [raised |-> "none",
          scrapper |-> Scraper(<<HOST_URL, PRODUCT_URL(c)>>, PRODUCT_NAME, VERSION, REVISION)]

(***************************************************************************)
(* Inputs: the terms each predicate is called with.                        *)
(***************************************************************************)
EVE_upper == <<"E","V","E">>

Instruments == {Instrument(eve_str), Instrument(EVE_upper), Instrument(<<"a","i","a">>)}

Sources == {Source(<<"s","d","o">>)}

\* Time('2012/8/9', '2012/8/10')-like term far from both cutovers
T_early  == Time(DateTime(1, 14, 0, 0, 0), DateTime(109, 23, 59, 59, 999999))
\* Time('2018/04/20', '2018/04/20')
T_first  == Time(DateTime(110, 0, 0, 0, 0), DateTime(110, 0, 0, 0, 0))
T_window == Time(DateTime(114, 14, 0, 0, 0), DateTime(117, 23, 59, 59, 999999))
T_stop   == Time(DateTime(118, 0, 0, 0, 0), DateTime(118, 0, 0, 0, 0))
\* Time('2018/05/01 14:00', '2018/05/01 14:00')
T_late   == Time(DateTime(121, 14, 0, 0, 0), DateTime(121, 14, 0, 0, 0))
T_across == Time(DateTime(110, 0, 0, 0, 0), DateTime(121, 14, 0, 0, 0))

EVEClient_Terms ==
    Instruments \cup Sources \cup {T_early}
    \cup {Level(IntV(0)), Level(StrV(<<"0">>)), Level(IntV(2))}

EVELevel2BClient_Terms ==
    Instruments \cup Sources \cup {T_early, T_first, T_window}
    \cup {Level(StrV(l2b_str)), Level(StrV(<<"2","B">>)), Level(IntV(2))}

EVELevel2Client_Terms ==
    Instruments \cup Sources \cup {T_window, T_stop, T_late, T_across}
    \cup {Level(IntV(2)), Level(StrV(l2_str)), Level(StrV(l2b_str))}

EVELevel3Client_Terms ==
    Instruments \cup Sources \cup {T_first, T_late}
    \cup {Level(IntV(3)), Level(StrV(l3_str)), Level(StrV(l3m_str))}

EVELevel3MergedClient_Terms ==
    Instruments \cup {T_first, T_late}
    \cup {Level(StrV(l3m_str)), Level(StrV(<<"3","M">>)),
          Level(StrV(<<"3","M","e","r","g","e","d">>)), Level(StrV(l3_str)), Level(IntV(3))}

\* the times of day and the datetimes of the requested ranges
TimesOfDay ==
    {<<0, 0, 0, 0>>, <<0, 0, 0, 1>>, <<14, 0, 0, 0>>, <<14, 30, 0, 0>>, <<15, 0, 59, 0>>}

DateTimes ==
    {DateTime(110 + d, t[1], t[2], t[3], t[4]) : d \in 0..MaxSpan, t \in TimesOfDay}

\* the TimeRange values: start <= end
TimeRanges ==
    {tr \in [start : DateTimes, end : DateTimes] : DtLE(tr.start, tr.end)}

\* the values of datetime.date.today()
Todays == {DateTime(110 + d, 0, 0, 0, 0) : d \in 0..MaxSpan}

\* a URL that follows none of the patterns
BadUrl == Url("malformed", 0, 0)

\* the URLs of a client's files, by the level of its pattern
FileUrls(level) ==
    CASE level = "L2"       -> {Url(level, 110, 14), Url(level, 110, 23)}
      [] level = "L3Merged" -> {Url(level, EPOCH_1900.day, 0)}
      [] OTHER              -> {Url(level, 110, 0), Url(level, 111, 0)}

\* the lists of at most MaxUrls URLs handed to _get_time_for_url
UrlLists(level) == UNION {[1..n -> FileUrls(level) \cup {BadUrl}] : n \in 0..MaxUrls}

\* the queries of at most MaxTerms terms over a set of terms
Queries(terms) == UNION {[1..n -> terms] : n \in 0..MaxTerms}

NoRange == [start |-> NoDt, end |-> NoDt]

(***************************************************************************)
(* The state machine: one call of one operation of one client.             *)
(***************************************************************************)
Init ==
    /\ op = "idle"
    /\ cls = "none"
    /\ query = <<>>
    /\ answer = FALSE
    /\ timerange = NoRange
    /\ scraped = NoRange
    /\ urls = <<>>
    /\ times = <<>>
    /\ raised = "none"
    /\ today = NoDt
    /\ scrapper = NoScraper

\* an instance of class c has been constructed
Constructed(c) == op = "__init__" /\ cls = c /\ raised = "none"

\* _get_url_for_timerange of an instance of class c has returned
Listed(c) == op = "_get_url_for_timerange" /\ cls = c

BaseEVEClient_Init ==
    /\ op = "idle"
    /\ \E c \in BaseEVEClasses :
          /\ cls' = c
          /\ raised' = BaseEVEClient_init(c).raised
          /\ scrapper' = BaseEVEClient_init(c).scrapper
    /\ op' = "__init__"
    /\ UNCHANGED <<query, answer, timerange, scraped, urls, times, today>>

EVEClient_CanHandleQuery ==
    /\ op = "idle"
    /\ \E q \in Queries(EVEClient_Terms) :
          /\ query' = q
          /\ answer' = EVEClient_can_handle_query(q)
    /\ op' = "_can_handle_query"
    /\ cls' = "EVEClient"
    /\ UNCHANGED <<timerange, scraped, urls, times, raised, today, scrapper>>

EVELevel2BClient_CanHandleQuery ==
    /\ op = "idle"
    /\ \E q \in Queries(EVELevel2BClient_Terms) :
          /\ query' = q
          /\ answer' = EVELevel2BClient_can_handle_query(q)
    /\ op' = "_can_handle_query"
    /\ cls' = "EVELevel2BClient"
    /\ UNCHANGED <<timerange, scraped, urls, times, raised, today, scrapper>>

EVELevel2Client_CanHandleQuery ==
    /\ op = "idle"
    /\ \E q \in Queries(EVELevel2Client_Terms) :
          /\ query' = q
          /\ answer' = EVELevel2Client_can_handle_query(q)
    /\ op' = "_can_handle_query"
    /\ cls' = "EVELevel2Client"
    /\ UNCHANGED <<timerange, scraped, urls, times, raised, today, scrapper>>

EVELevel3Client_CanHandleQuery ==
    /\ op = "idle"
    /\ \E q \in Queries(EVELevel3Client_Terms) :
          /\ query' = q
          /\ answer' = EVELevel3Client_can_handle_query(q)
    /\ op' = "_can_handle_query"
    /\ cls' = "EVELevel3Client"
    /\ UNCHANGED <<timerange, scraped, urls, times, raised, today, scrapper>>

EVELevel3MergedClient_CanHandleQuery ==
    /\ op = "idle"
    /\ \E q \in Queries(EVELevel3MergedClient_Terms) :
          /\ query' = q
          /\ answer' = EVELevel3MergedClient_can_handle_query(q)
    /\ op' = "_can_handle_query"
    /\ cls' = "EVELevel3MergedClient"
    /\ UNCHANGED <<timerange, scraped, urls, times, raised, today, scrapper>>

EVEClient_GetUrlForTimerange ==
    /\ op = "idle"
    /\ \E tr \in TimeRanges :
          /\ timerange' = tr
          /\ scraped' = EVEClient_timerange(tr)
          /\ urls' = Scraper_filelist("L0CS", FALSE, EVEClient_timerange(tr))
    /\ op' = "_get_url_for_timerange"
    /\ cls' = "EVEClient"
    /\ UNCHANGED <<query, answer, times, raised, today, scrapper>>

EVELevel2BClient_GetUrlForTimerange ==
    /\ Constructed("EVELevel2BClient")
    /\ \E tr \in TimeRanges :
          /\ timerange' = tr
          /\ scraped' = EVELevel2BClient_timerange(tr)
          /\ urls' = Scraper_filelist("L2B", FALSE, EVELevel2BClient_timerange(tr))
    /\ op' = "_get_url_for_timerange"
    /\ UNCHANGED cls
    /\ UNCHANGED <<query, answer, times, raised, today, scrapper>>

EVELevel2Client_GetUrlForTimerange ==
    /\ Constructed("EVELevel2Client")
    /\ \E tr \in TimeRanges :
          /\ timerange' = tr
          /\ scraped' = EVELevel2Client_timerange(tr)
          /\ urls' = Scraper_filelist("L2", TRUE, EVELevel2Client_timerange(tr))
    /\ op' = "_get_url_for_timerange"
    /\ UNCHANGED cls
    /\ UNCHANGED <<query, answer, times, raised, today, scrapper>>

EVELevel3Client_GetUrlForTimerange ==
    /\ Constructed("EVELevel3Client")
    /\ \E tr \in TimeRanges :
          /\ timerange' = tr
          /\ scraped' = EVELevel3Client_timerange(tr)
          /\ urls' = Scraper_filelist("L3", FALSE, EVELevel3Client_timerange(tr))
    /\ op' = "_get_url_for_timerange"
    /\ UNCHANGED cls
    /\ UNCHANGED <<query, answer, times, raised, today, scrapper>>

EVELevel3MergedClient_GetUrlForTimerange ==
    /\ Constructed("EVELevel3MergedClient")
    /\ \E tr \in TimeRanges, td \in Todays :
          /\ timerange' = tr
          /\ today' = td
          /\ scraped' = EVELevel3MergedClient_timerange(tr, td)
          /\ urls' = Scraper_filelist_undated("L3Merged",
                                              EVELevel3MergedClient_timerange(tr, td))
    /\ op' = "_get_url_for_timerange"
    /\ UNCHANGED <<cls, query, answer, times, raised, scrapper>>

EVEClient_GetTimeForUrl ==
    /\ \/ op = "idle" /\ \E us \in UrlLists("L0CS") : urls' = us
       \/ Listed("EVEClient") /\ urls' = urls
    /\ times' = EVEClient_get_time_for_url(urls').times
    /\ raised' = EVEClient_get_time_for_url(urls').raised
    /\ op' = "_get_time_for_url"
    /\ cls' = "EVEClient"
    /\ UNCHANGED <<query, answer, timerange, scraped, today, scrapper>>

EVELevel2BClient_GetTimeForUrl ==
    /\ \/ Constructed("EVELevel2BClient") /\ \E us \in UrlLists("L2B") : urls' = us
       \/ Listed("EVELevel2BClient") /\ urls' = urls
    /\ times' = EVELevel2BClient_get_time_for_url(urls').times
    /\ raised' = EVELevel2BClient_get_time_for_url(urls').raised
    /\ op' = "_get_time_for_url"
    /\ UNCHANGED <<cls, query, answer, timerange, scraped, today, scrapper>>

EVELevel2Client_GetTimeForUrl ==
    /\ \/ Constructed("EVELevel2Client") /\ \E us \in UrlLists("L2") : urls' = us
       \/ Listed("EVELevel2Client") /\ urls' = urls
    /\ times' = EVELevel2Client_get_time_for_url(urls').times
    /\ raised' = EVELevel2Client_get_time_for_url(urls').raised
    /\ op' = "_get_time_for_url"
    /\ UNCHANGED <<cls, query, answer, timerange, scraped, today, scrapper>>

EVELevel3Client_GetTimeForUrl ==
    /\ \/ Constructed("EVELevel3Client") /\ \E us \in UrlLists("L3") : urls' = us
       \/ Listed("EVELevel3Client") /\ urls' = urls
    /\ times' = EVELevel3Client_get_time_for_url(urls').times
    /\ raised' = EVELevel3Client_get_time_for_url(urls').raised
    /\ op' = "_get_time_for_url"
    /\ UNCHANGED <<cls, query, answer, timerange, scraped, today, scrapper>>

EVELevel3MergedClient_GetTimeForUrl ==
    /\ \/ Constructed("EVELevel3MergedClient")
          /\ \E us \in UrlLists("L3Merged") : urls' = us
       \/ Listed("EVELevel3MergedClient") /\ urls' = urls
    /\ \E td \in Todays :
          /\ ~DtLT(td, today)
          /\ today' = td
          /\ times' = EVELevel3MergedClient_get_time_for_url(urls', td).times
          /\ raised' = EVELevel3MergedClient_get_time_for_url(urls', td).raised
    /\ op' = "_get_time_for_url"
    /\ UNCHANGED <<cls, query, answer, timerange, scraped, scrapper>>

Next ==
    \/ EVEClient_CanHandleQuery
    \/ EVELevel2BClient_CanHandleQuery
    \/ EVELevel2Client_CanHandleQuery
    \/ EVELevel3Client_CanHandleQuery
    \/ EVELevel3MergedClient_CanHandleQuery
    \/ EVEClient_GetUrlForTimerange
    \/ EVELevel2BClient_GetUrlForTimerange
    \/ EVELevel2Client_GetUrlForTimerange
    \/ EVELevel3Client_GetUrlForTimerange
    \/ EVELevel3MergedClient_GetUrlForTimerange
    \/ BaseEVEClient_Init
    \/ EVEClient_GetTimeForUrl
    \/ EVELevel2BClient_GetTimeForUrl
    \/ EVELevel2Client_GetTimeForUrl
    \/ EVELevel3Client_GetTimeForUrl
    \/ EVELevel3MergedClient_GetTimeForUrl

Spec == Init /\ [][Next]_vars

(***************************************************************************)
(* Vocabulary of the properties                                            *)
(***************************************************************************)
\* s and t are the same string up to the case of their letters
EqualsIgnoringCase(s, t) ==
    /\ Len(s) = Len(t)
    /\ \A i \in DOMAIN s :
          \/ s[i] = t[i]
          \/ \E k \in DOMAIN UpperCase : {s[i], t[i]} = {UpperCase[k], LowerCase[k]}

Called(c) == op = "_can_handle_query" /\ cls = c

KindSetClients ==
    {"EVELevel2BClient", "EVELevel2Client", "EVELevel3Client", "EVELevel3MergedClient"}

AllClients == KindSetClients \cup {"EVEClient"}

IsEve(x) == x.name = "Instrument" /\ EqualsIgnoringCase(x.value.s, eve_str)

IsLevel0(x) == x.name = "Level" /\ x.value = IntV(0)

IsLevel2B(x) ==
    x.name = "Level" /\ x.value.type = "str" /\ EqualsIgnoringCase(x.value.s, l2b_str)

IsLevel2(x) == x.name = "Level" /\ x.value \in {IntV(2), StrV(<<"2">>)}

IsLevel3(x) == x.name = "Level" /\ x.value \in {IntV(3), StrV(<<"3">>)}

IsLevel3Merged(x) ==
    /\ x.name = "Level" /\ x.value.type = "str"
    /\ \/ EqualsIgnoringCase(x.value.s, l3m_str)
       \/ EqualsIgnoringCase(x.value.s, l3merged_str)

\* the Time term ends on 2018-04-20 (day 110) or later
EndsFrom0420(x) == x.name = "Time" /\ x.end.day >= 110

\* the Time term starts before 2018-04-28 (day 118)
StartsBefore0428(x) == x.name = "Time" /\ x.start.day < 118

\* the Time term ends after 2018-04-28 00:00
EndsAfter0428(x) ==
    /\ x.name = "Time"
    /\ \/ x.end.day > 118
       \/ x.end.day = 118
          /\ x.end.hour + x.end.minute + x.end.second + x.end.microsecond > 0

\* the Time term lies within 2018-04-20 .. 2018-04-27
InOverlapWindow(x) ==
    x.name = "Time" /\ x.start.day \in 110..117 /\ x.end.day \in 110..117

Has(q, P(_)) == \E i \in DOMAIN q : P(q[i])

IsTime(x) == x.name = "Time"

\* every kind the client requires has a satisfying term in q
Satisfied(c, q) ==
    CASE c = "EVELevel2BClient" -> Has(q, IsEve) /\ Has(q, IsLevel2B) /\ Has(q, EndsFrom0420)
      [] c = "EVELevel2Client"  -> Has(q, IsEve) /\ Has(q, IsLevel2) /\ Has(q, StartsBefore0428)
      [] c = "EVELevel3Client"  -> Has(q, IsEve) /\ Has(q, IsLevel3)
      [] c = "EVELevel3MergedClient" -> Has(q, IsEve) /\ Has(q, IsLevel3Merged)
      [] c = "EVEClient"        -> Has(q, IsEve) /\ Has(q, IsLevel0)

\* q has two terms of the same kind
HasDuplicateKind(q) ==
    \E i, j \in DOMAIN q : i < j /\ q[i].name = q[j].name

\* q is one Instrument('eve'), one Level 2 and one Time term, in any order
IsLevel2Triple(q) ==
    Len(q) = 3 /\ Has(q, IsEve) /\ Has(q, IsLevel2) /\ Has(q, IsTime)

IsLevel2BTriple(q) ==
    Len(q) = 3 /\ Has(q, IsEve) /\ Has(q, IsLevel2B) /\ Has(q, IsTime)

\* q with the term t added at position p+1
InsertAt(q, p, t) == SubSeq(q, 1, p) \o <<t>> \o SubSeq(q, p + 1, Len(q))

\* q with its Level terms replaced by Level(v)
WithLevel(q, v) == [i \in DOMAIN q |-> IF q[i].name = "Level" THEN Level(v) ELSE q[i]]

\* the terms whose kind the client does not look at
Physobs == [name |-> "Physobs", value |-> StrV(<<"i","r","r">>), start |-> NoDt, end |-> NoDt]

UncheckedTerms(c) ==
    Sources \cup {Physobs}
    \cup (IF c \in {"EVEClient", "EVELevel3Client", "EVELevel3MergedClient"}
          THEN {T_early, T_late} ELSE {})

(***************************************************************************)
(* Properties                                                              *)
(***************************************************************************)

\* C1: EVELevel2BClient._can_handle_query is true iff the query has an
\* Instrument term equal to 'eve' ignoring case, a str Level term equal to
\* '2b' ignoring case and a Time term ending at or after 2018-04-20 00:00.
C1_Level2B_Iff ==
    Called("EVELevel2BClient") =>
        (answer <=> /\ Has(query, IsEve)
                    /\ Has(query, IsLevel2B)
                    /\ Has(query, EndsFrom0420))

C1_Witness ==
    /\ Called("EVELevel2BClient") /\ answer
    /\ query = <<T_first, Instrument(EVE_upper), Level(StrV(<<"2","B">>))>>

\* C2: EVELevel2Client._can_handle_query is true iff the query has an
\* Instrument term equal to 'eve' ignoring case, a Level term that is the
\* int 2 or the str '2', and a Time term starting before 2018-04-28 00:00.
C2_Level2_Iff ==
    Called("EVELevel2Client") =>
        (answer <=> /\ Has(query, IsEve)
                    /\ Has(query, IsLevel2)
                    /\ Has(query, StartsBefore0428))

C2_Witness ==
    /\ Called("EVELevel2Client") /\ answer
    /\ query = <<T_window, Instrument(EVE_upper), Level(StrV(l2_str))>>

\* C3 (as stated): a query {Instrument('eve'), Level 2, Time} whose Time
\* term ends after 2018-04-28 is refused by EVELevel2Client, whatever its
\* start.
C3_Original ==
    (Called("EVELevel2Client") /\ IsLevel2Triple(query) /\ Has(query, EndsAfter0428))
        => ~answer

\* C3 (amended): a query {Instrument('eve'), Level 2, Time} is refused by
\* EVELevel2Client when its Time term starts at or after 2018-04-28 00:00,
\* and accepted when it starts before, also when it ends after 2018-04-28.
C3_Level2_RefusedByStart ==
    (Called("EVELevel2Client") /\ IsLevel2Triple(query))
        => (answer <=> Has(query, StartsBefore0428))

C3_Witness ==
    /\ Called("EVELevel2Client") /\ ~answer
    /\ query = <<T_late, Instrument(eve_str), Level(IntV(2))>>

\* C4: EVEClient._can_handle_query is true iff the query has an Instrument
\* term equal to 'eve' ignoring case and a Level term equal to 0.
C4_Level0_Iff ==
    Called("EVEClient") =>
        (answer <=> Has(query, IsEve) /\ Has(query, IsLevel0))

C6_UncheckedKindIgnored ==
    (op = "_can_handle_query") =>
        \A t \in UncheckedTerms(cls) : \A p \in 0..Len(query) :
            can_handle_query(cls, InsertAt(query, p, t)) = answer

C6_Witness ==
    /\ Called("EVELevel3Client") /\ answer
    /\ Has(query, IsTime)
    /\ \E i \in DOMAIN query : query[i] \in Sources

\* C7: EVELevel3Client._can_handle_query is true iff the query has
\* Instrument 'eve' and Level 3 or '3'; EVELevel3MergedClient's is true iff
\* it has Instrument 'eve' and a str Level equal to '3m' or '3merged'
\* ignoring case; both answers are those of the query without its Time terms.
C7_Level3_NoTimeConstraint ==
    /\ Called("EVELevel3Client") =>
          /\ answer <=> (Has(query, IsEve) /\ Has(query, IsLevel3))
          /\ answer = EVELevel3Client_can_handle_query(
                          SelectSeq(query, LAMBDA x : ~IsTime(x)))
    /\ Called("EVELevel3MergedClient") =>
          /\ answer <=> (Has(query, IsEve) /\ Has(query, IsLevel3Merged))
          /\ answer = EVELevel3MergedClient_can_handle_query(
                          SelectSeq(query, LAMBDA x : ~IsTime(x)))

C7_Witness ==
    /\ Called("EVELevel3MergedClient") /\ answer
    /\ query = <<Instrument(eve_str), Level(StrV(<<"3","M","e","r","g","e","d">>))>>

\* C8: when the Time term lies within 2018-04-20 .. 2018-04-27, the query
\* {Instrument('eve'), Time, Level 2} is accepted by EVELevel2Client and the
\* same query with Level '2b' is accepted by EVELevel2BClient.
C8_CutoverOverlap ==
    /\ (Called("EVELevel2Client") /\ IsLevel2Triple(query) /\ Has(query, InOverlapWindow))
          => /\ answer
             /\ EVELevel2BClient_can_handle_query(WithLevel(query, StrV(l2b_str)))
    /\ (Called("EVELevel2BClient") /\ IsLevel2BTriple(query) /\ Has(query, InOverlapWindow))
          => /\ answer
             /\ EVELevel2Client_can_handle_query(WithLevel(query, IntV(2)))

C8_Witness ==
    /\ Called("EVELevel2Client") /\ answer
    /\ query = <<Instrument(eve_str), T_window, Level(IntV(2))>>

\* the clients with one file per day, and the client with one file per hour
DailyClients == {"EVEClient", "EVELevel2BClient", "EVELevel3Client"}

\* the clients whose files are dated: the daily ones and the hourly one
DatedClients == DailyClients \cup {"EVELevel2Client"}

\* midnight of the day of dt, and the top of the hour of dt
Midnight(dt)  == [dt EXCEPT !.hour = 0, !.minute = 0, !.second = 0, !.microsecond = 0]
TopOfHour(dt) == [dt EXCEPT !.minute = 0, !.second = 0, !.microsecond = 0]

\* the start of the partition (day or hour) of client c that contains dt
PartitionOf(c, dt) == IF c \in DailyClients THEN Midnight(dt) ELSE TopOfHour(dt)

\* the partition of c that follows the one starting at dt
NextPartition(c, dt) ==
    IF c \in DailyClients THEN [dt EXCEPT !.day = dt.day + 1]
    ELSE IF dt.hour = 23 THEN [dt EXCEPT !.day = dt.day + 1, !.hour = 0]
    ELSE [dt EXCEPT !.hour = dt.hour + 1]

\* C9: the range passed to the scraper starts at the requested start rounded
\* down to midnight (daily clients) or to the top of the hour (hourly
\* client), which is not after the requested start; its end is the requested
\* end; a start already on the boundary leaves the range unchanged.
C9_StartRoundedDown ==
    (op = "_get_url_for_timerange" /\ cls \in DatedClients) =>
        /\ scraped.start = PartitionOf(cls, timerange.start)
        /\ ~DtLT(timerange.start, scraped.start)
        /\ scraped.end = timerange.end
        /\ (timerange.start = PartitionOf(cls, timerange.start)) => scraped = timerange

C9_Witness ==
    /\ Listed("EVELevel2Client")
    /\ timerange.start = DateTime(110, 14, 30, 0, 0)
    /\ scraped.start = DateTime(110, 14, 0, 0, 0)
    /\ timerange.end.day = 111

\* C10: the URLs listed for a requested range [s, e] are one per partition
\* in ascending order, from the partition containing s to the partition
\* containing e; a range with s = e yields exactly one URL.
C10_OneUrlPerPartition ==
    (op = "_get_url_for_timerange" /\ cls \in DatedClients) =>
        /\ Len(urls) >= 1
        /\ extractDateURL(urls[1]) = PartitionOf(cls, timerange.start)
        /\ extractDateURL(urls[Len(urls)]) = PartitionOf(cls, timerange.end)
        /\ \A i \in 1..(Len(urls) - 1) :
              extractDateURL(urls[i + 1]) = NextPartition(cls, extractDateURL(urls[i]))
        /\ (timerange.start = timerange.end) => Len(urls) = 1

C10_Witness ==
    /\ Listed("EVEClient")
    /\ timerange.start = DateTime(110, 14, 30, 0, 0)
    /\ timerange.end = DateTime(111, 0, 0, 0, 0)
    /\ urls = <<Url("L0CS", 110, 0), Url("L0CS", 111, 0)>>

TimesFor(c) == op = "_get_time_for_url" /\ cls = c

\* the number of whole hours from day 0, 00:00 to the hour of dt
HourNumber(dt) == dt.day * 24 + dt.hour

\* the span tr lasts exactly n hours
LastsHours(tr, n) ==
    /\ HourNumber(tr.end) - HourNumber(tr.start) = n
    /\ tr.end.minute = tr.start.minute
    /\ tr.end.second = tr.start.second
    /\ tr.end.microsecond = tr.start.microsecond

\* the level named in the URL pattern of client c
PatternLevel(c) ==
    CASE c = "EVEClient"             -> "L0CS"
      [] c = "EVELevel2BClient"      -> "L2B"
      [] c = "EVELevel2Client"       -> "L2"
      [] c = "EVELevel3Client"       -> "L3"
      [] c = "EVELevel3MergedClient" -> "L3Merged"

\* some URL handed to client c is not of its pattern
HasMalformedUrl(c) == \E i \in DOMAIN urls : urls[i].level # PatternLevel(c)

\* the span 1900-01-01 .. today
FullMission == [start |-> DateTime(-43098, 0, 0, 0, 0), end |-> today]

\* C11: _get_time_for_url returns one TimeRange per URL, in the order of
\* the URLs, each starting at the date the URL encodes and lasting one day
\* (daily clients) or one hour (hourly client).
C11_OneSpanPerUrl ==
    (op = "_get_time_for_url" /\ cls \in DatedClients /\ raised = "none") =>
        /\ Len(times) = Len(urls)
        /\ \A i \in DOMAIN urls :
              /\ times[i].start = DateTime(urls[i].day, urls[i].hour, 0, 0, 0)
              /\ LastsHours(times[i], IF cls \in DailyClients THEN 24 ELSE 1)

C11_Witness ==
    /\ TimesFor("EVELevel2Client") /\ raised = "none"
    /\ urls = <<Url("L2", 110, 14), Url("L2", 110, 23)>>
    /\ times[2].end = DateTime(111, 0, 0, 0, 0)

\* C12: the spans rebuilt from the URLs listed for a range [s, e] are
\* consecutive partitions that cover [s, e] without a gap; with s and e on
\* partition boundaries they start at s and end one partition after e.
C12_SpansCoverRange ==
    (op = "_get_time_for_url" /\ cls \in DatedClients /\ timerange # NoRange) =>
        /\ raised = "none"
        /\ Len(times) >= 1
        /\ ~DtLT(timerange.start, times[1].start)
        /\ DtLT(timerange.end, times[Len(times)].end)
        /\ \A i \in 1..(Len(times) - 1) : times[i].end = times[i + 1].start
        /\ (timerange.start = PartitionOf(cls, timerange.start))
              => times[1].start = timerange.start
        /\ (timerange.end = PartitionOf(cls, timerange.end))
              => times[Len(times)].end = NextPartition(cls, timerange.end)

C12_Witness ==
    /\ TimesFor("EVELevel2BClient")
    /\ timerange = [start |-> DateTime(110, 0, 0, 0, 0), end |-> DateTime(111, 0, 0, 0, 0)]
    /\ Len(times) = 2
    /\ times[2].end = DateTime(112, 0, 0, 0, 0)

\* C13: EVELevel3MergedClient lists, whatever the requested range, the
\* range 1900-01-01 .. today, which yields exactly one URL, and rebuilds for
\* every URL the span 1900-01-01 .. today.
C13_MergedIsPerpetual ==
    /\ Listed("EVELevel3MergedClient") =>
          /\ scraped = FullMission
          /\ urls = <<Url("L3Merged", -43098, 0)>>
    /\ TimesFor("EVELevel3MergedClient") =>
          /\ raised = "none"
          /\ Len(times) = Len(urls)
          /\ \A i \in DOMAIN times : times[i] = FullMission

C13_Witness ==
    /\ TimesFor("EVELevel3MergedClient")
    /\ timerange.start = DateTime(111, 14, 30, 0, 0)
    /\ today.day = 112
    /\ times = <<FullMission>>

\* C14: constructing _BaseEVEClient itself, whose _PRODUCT_URL is
\* NotImplemented, raises NotImplementedError without a scraper being made,
\* and no operation is ever run on it; constructing one of the four concrete
\* subclasses never raises and makes the scraper.
C14_UnboundPatternFailsAtConstruction ==
    /\ (cls = "_BaseEVEClient") =>
          /\ op = "__init__"
          /\ raised = "NotImplementedError"
          /\ scrapper = NoScraper
          /\ urls = <<>> /\ times = <<>>
    /\ (op = "__init__" /\ cls # "_BaseEVEClient") =>
          /\ raised = "none"
          /\ scrapper # NoScraper
          /\ scrapper.pattern[2] # "NotImplemented"

C14_Witness ==
    op = "__init__" /\ cls = "_BaseEVEClient" /\ raised = "NotImplementedError"

\* C15 (as stated): for every client, _get_time_for_url fails with a
\* pattern mismatch, and returns no TimeRange, when a URL is not of the
\* client's pattern.
C15_Original ==
    (op = "_get_time_for_url" /\ HasMalformedUrl(cls)) =>
        (raised = "PatternMismatch" /\ times = <<>>)

\* C15 (amended): for the dated clients _get_time_for_url fails with a
\* pattern mismatch, and returns no TimeRange, when a URL is not of the
\* client's pattern; EVELevel3MergedClient does not look at the URL and
\* returns the span 1900-01-01 .. today for it.
C15_MismatchFailsForDatedClients ==
    /\ (op = "_get_time_for_url" /\ cls \in DatedClients) =>
          IF HasMalformedUrl(cls)
          THEN raised = "PatternMismatch" /\ times = <<>>
          ELSE raised = "none"
    /\ (TimesFor("EVELevel3MergedClient") /\ HasMalformedUrl(cls)) =>
          /\ raised = "none"
          /\ \A i \in DOMAIN urls : times[i] = FullMission

C15_Witness ==
    /\ TimesFor("EVELevel3MergedClient")
    /\ urls = <<BadUrl>>
    /\ raised = "none"
    /\ Len(times) = 1

\* the number of terms of q that satisfy P
Count(q, P(_)) == Cardinality({i \in DOMAIN q : P(q[i])})

IsEveOrLevel0(x) == IsEve(x) \/ IsLevel0(x)

\* the kinds client c requires
RequiredKinds(c) ==
    IF c \in {"EVELevel2BClient", "EVELevel2Client"}
    THEN {"Instrument", "Level", "Time"}
    ELSE {"Instrument", "Level"}

\* chk_var of a kind-set client at the end of its loop
KindSet(c, q) ==
    CASE c = "EVELevel2BClient"      -> EVELevel2BClient_chk_var(q)
      [] c = "EVELevel2Client"       -> EVELevel2Client_chk_var(q)
      [] c = "EVELevel3Client"       -> EVELevel3Client_chk_var(q)
      [] c = "EVELevel3MergedClient" -> EVELevel3MergedClient_chk_var(q)

\* the terms the queries of client c are made of
TermsOf(c) ==
    CASE c = "EVEClient"             -> EVEClient_Terms
      [] c = "EVELevel2BClient"      -> EVELevel2BClient_Terms
      [] c = "EVELevel2Client"       -> EVELevel2Client_Terms
      [] c = "EVELevel3Client"       -> EVELevel3Client_Terms
      [] c = "EVELevel3MergedClient" -> EVELevel3MergedClient_Terms

\* the term t satisfies the requirement of client c on its kind
Satisfies(c, t) ==
    \/ IsEve(t)
    \/ c = "EVELevel2BClient" /\ (IsLevel2B(t) \/ EndsFrom0420(t))
    \/ c = "EVELevel2Client" /\ (IsLevel2(t) \/ StartsBefore0428(t))
    \/ c = "EVELevel3Client" /\ IsLevel3(t)
    \/ c = "EVELevel3MergedClient" /\ IsLevel3Merged(t)

\* q with its terms at positions i and j exchanged
Swap(q, i, j) ==
    [k \in DOMAIN q |-> IF k = i THEN q[j] ELSE IF k = j THEN q[i] ELSE q[k]]

\* C16: EVEClient._can_handle_query is true exactly when the number of terms
\* that are an Instrument 'eve' or a Level 0 is 2: two Instrument('eve')
\* terms without a Level are accepted, two Instrument('eve') terms with
\* Level(0) are refused, unlike the rule 'every required kind is satisfied'.
C16_Level0_RunningCount ==
    Called("EVEClient") =>
        /\ answer <=> (Count(query, IsEveOrLevel0) = 2)
        /\ (Count(query, IsEve) = 2 /\ Count(query, IsLevel0) = 0)
              => (answer /\ ~Satisfied("EVEClient", query))
        /\ (Count(query, IsEve) = 2 /\ Count(query, IsLevel0) = 1)
              => (~answer /\ Satisfied("EVEClient", query))

C16_Witness ==
    /\ Called("EVEClient") /\ ~answer
    /\ query = <<Instrument(eve_str), Level(IntV(0)), Instrument(EVE_upper)>>

\* C17: for the kind-set clients, adding a second satisfying term of a kind
\* that is already satisfied never changes the answer; chk_var only holds
\* required kinds, so the size check is 'every required kind has a
\* satisfying term'.
C17_KindSetSemantics ==
    (op = "_can_handle_query" /\ cls \in KindSetClients) =>
        /\ KindSet(cls, query) \subseteq RequiredKinds(cls)
        /\ \A k \in RequiredKinds(cls) :
              (k \in KindSet(cls, query))
                 <=> \E i \in DOMAIN query : query[i].name = k /\ Satisfies(cls, query[i])
        /\ answer <=> (KindSet(cls, query) = RequiredKinds(cls))
        /\ \A t \in TermsOf(cls) :
              (Satisfies(cls, t) /\ t.name \in KindSet(cls, query)) =>
                  \A p \in 0..Len(query) :
                      can_handle_query(cls, InsertAt(query, p, t)) = answer

C17_Witness ==
    /\ Called("EVELevel3MergedClient") /\ answer
    /\ query = <<Level(StrV(l3m_str)), Instrument(eve_str), Level(StrV(<<"3","M">>))>>

\* C18: for each of the five clients the answer is the same when two terms
\* of the query are exchanged, hence for every order of the same terms.
C18_OrderIndependent ==
    (op = "_can_handle_query") =>
        \A i, j \in DOMAIN query :
            (i < j) => can_handle_query(cls, Swap(query, i, j)) = answer

C18_Witness ==
    /\ Called("EVELevel2Client") /\ answer
    /\ query = <<T_window, Level(IntV(2)), Instrument(eve_str)>>

\* C19: a query with exactly one Instrument term, exactly one Level term
\* and at most one Time term is accepted by at most one of the five clients.
C19_AtMostOneClient ==
    (/\ op = "_can_handle_query"
     /\ Count(query, LAMBDA x : x.name = "Instrument") = 1
     /\ Count(query, LAMBDA x : x.name = "Level") = 1
     /\ Count(query, IsTime) <= 1) =>
        /\ Cardinality({c \in AllClients : can_handle_query(c, query)}) <= 1
        /\ answer => ({c \in AllClients : can_handle_query(c, query)} = {cls})

C19_Witness ==
    /\ Called("EVELevel2Client") /\ answer
    /\ query = <<Instrument(eve_str), Level(StrV(l2_str)), T_window>>

====
